---- MODULE Spec2Model ----
(***************************************************************************)
(* Model of the incremental crawl / enrich / persist pipeline of           *)
(* backbone_crawler.py: DailyQueueManager (partition cursor), P4NScraper   *)
(* (_load_existing, start, extract_atomic, _upsert_and_save).              *)
(*                                                                         *)
(* A DataFrame is a sequence of rows.  A cell carries the Python type of   *)
(* its value, because pandas' sort_values and drop_duplicates compare      *)
(* Python objects: the p4n_id of a freshly scraped row is a str, the       *)
(* p4n_id read back by read_csv from a column of digits is an int64; the   *)
(* last_scraped of a scraped row is the str made by strftime, the one of   *)
(* a loaded row is a Timestamp (or NaT when the cell did not parse).       *)
(* Time is counted in days.                                                *)
(*                                                                         *)
(* Spec follows several runs in a row, over pages that load or time out.   *)
(* RunSpec follows one run over every fault of a detail page and every     *)
(* answer of the AI capability (analyze_with_ai, extract_atomic).          *)
(* SkewSpec follows several runs whose clock may have been set back.       *)
(* PageSpec follows one run at the page: every link and data-place-id, and *)
(* the call and the return of each extract_atomic.                         *)
(***************************************************************************)
EXTENDS Integers, Sequences, FiniteSets, TLC

\* ---------------------------------------------------------------- bounds
MaxItems == 2
MaxSeeds == 2
MaxRuns == 2

\* ------------------------------------------------------ program constants
STALENESS_DAYS == 30
DEV_LIMIT == 1
MIN_REVIEWS_THRESHOLD == 5
PROD_CSV == "backbone_locations.csv"
DEV_CSV == "backbone_locations_dev.csv"

ItemIds == 1..MaxItems
\* The empty string as an id: the last segment of a link that ends in "/",
\* the data-place-id of a body that has none.
EmptyId == 0
\* AI_DELAY, in tenths of a second.
AI_DELAY == 15

VARIABLES
  now,              \* datetime.now(), in days
  runs,             \* number of runs started so far (bounded)
  files,            \* content of PROD_CSV and DEV_CSV on disk
  state_file,       \* content of STATE_FILE
  url_list,         \* content of URL_LIST_FILE (number of seed URLs)
  pc,               \* position of the current run inside start()
  login_result,     \* what login() returned in this run ("pending" before)
  is_dev, force,    \* self.is_dev, self.force
  existing_df,      \* self.existing_df
  processed_batch,  \* self.processed_batch
  stats,            \* self.stats
  target_urls,      \* result of get_next_partition (0-based seed indices)
  discovered,       \* list(set(discovery_links))
  queue,            \* the work queue built by start()
  qpos,             \* queue entries already handed to extract_atomic
  scanned,          \* seeds fetched by page.goto during this run
  cursor0,          \* state_file as it was when the run started
  cycle,            \* seeds scanned by the latest consecutive completed
                    \* production runs (at most one round of the list)
  ai_events,        \* what the run did at the AI client, in order: the
                    \* sleeps and the generate_content requests
  in_flight         \* queue positions whose extract_atomic call has begun
                    \* and not returned

vars == <<now, runs, files, state_file, url_list, pc, login_result, is_dev, force,
          existing_df, processed_batch, stats, target_urls, discovered,
          queue, qpos, scanned, cursor0, cycle, ai_events, in_flight>>

\* ------------------------------------------------------------------ cells
\* A cell is <<python type, value>>.
StrId(v) == <<"str", v>>
IntId(v) == <<"int", v>>
StrTs(t) == <<"str", t>>
Timestamp(t) == <<"Timestamp", t>>
NaT == <<"NaT", 0>>
\* Cells of the CSV text: a timestamp text, or a cell that does not parse.
Text(t) == <<"text", t>>
Blank == <<"blank", 0>>

isna(c) == c[1] = "NaT"

\* Cells of the AI-derived numeric columns (num_places stands for them):
\* None or an int in a scraped row, NaN or a float in a loaded one.
None == <<"None", 0>>
PyInt(v) == <<"int", v>>
NaN == <<"NaN", 0>>
Float(v) == <<"float", v>>
isnull(c) == c[1] \in {"None", "NaN", "NaT"}

Row(i, c, n) == [p4n_id |-> i, last_scraped |-> c, num_places |-> n]

\* ------------------------------------------------------------------ files
Absent == [exists |-> FALSE, rows |-> <<>>]
Table(rows) == [exists |-> TRUE, rows |-> rows]
\* A table file that exists and holds no table: it is empty, its bytes are
\* not CSV, or it has no last_scraped column.
Unparseable == [exists |-> TRUE, rows |-> <<>>]

NoState == [kind |-> "absent", current_index |-> 0]
CorruptState == [kind |-> "corrupt", current_index |-> 0]
JsonState(i) == [kind |-> "json", current_index |-> i]
\* STATE_FILE holds JSON that json.load accepts and that is not an object
\* with an integer current_index: a list, {"current_index": "3"},
\* {"current_index": null}.
MisshapenState == [kind |-> "misshapen", current_index |-> 0]

\* ------------------------------------------------------- pandas operations
\* pd.to_datetime(..., errors='coerce') on one CSV cell.
to_datetime(c) == IF c[1] = "text" THEN Timestamp(c[2]) ELSE NaT

\* pd.read_csv: a column of digits is inferred as int64, a numeric column
\* with empty cells as float64 with NaN.
read_csv(f) ==
  [i \in 1..Len(f.rows) |->
     Row(IntId(f.rows[i].p4n_id), f.rows[i].last_scraped,
         IF f.rows[i].num_places[1] = "text"
         THEN Float(f.rows[i].num_places[2]) ELSE NaN)]

\* DataFrame.to_csv: str(value) of every cell, NaT as the empty string.
to_csv(df) ==
  Table([i \in 1..Len(df) |->
           Row(df[i].p4n_id[2],
               IF isna(df[i].last_scraped) THEN Blank
               ELSE Text(df[i].last_scraped[2]),
               IF isnull(df[i].num_places) THEN Blank
               ELSE Text(df[i].num_places[2]))])

\* pd.read_csv raises (EmptyDataError, ParserError) or df['last_scraped']
\* raises KeyError.
LoadRaises(f) == f.exists /\ f.rows = <<>>

\* _load_existing: the table of the file; the empty DataFrame when the file
\* is missing or when reading it raises (except: pass).
_load_existing(f) ==
  IF f.exists /\ ~LoadRaises(f)
  THEN LET df == read_csv(f)
       IN [i \in 1..Len(df) |-> Row(df[i].p4n_id, to_datetime(df[i].last_scraped),
                                     df[i].num_places)]
  ELSE <<>>

concat(a, b) == a \o b

\* sort_values compares the non-null cells as Python objects: a str and a
\* Timestamp are not ordered ('<' raises TypeError).
SortRaises(df) ==
  \E i, j \in 1..Len(df) :
     /\ ~isna(df[i].last_scraped) /\ ~isna(df[j].last_scraped)
     /\ df[i].last_scraped[1] # df[j].last_scraped[1]

NonNull(df) == SelectSeq(df, LAMBDA r : ~isna(r.last_scraped))
Nulls(df) == SelectSeq(df, LAMBDA r : isna(r.last_scraped))

Remove(s, k) == [i \in 1..(Len(s) - 1) |-> IF i < k THEN s[i] ELSE s[i + 1]]

\* Index of the first row holding the greatest last_scraped.
FirstMax(s) ==
  CHOOSE k \in 1..Len(s) :
     /\ \A j \in 1..Len(s) : s[j].last_scraped[2] <= s[k].last_scraped[2]
     /\ \A j \in 1..(k - 1) : s[j].last_scraped[2] < s[k].last_scraped[2]

RECURSIVE SortDesc(_)
SortDesc(s) ==
  IF s = <<>> THEN <<>>
  ELSE LET k == FirstMax(s) IN <<s[k]>> \o SortDesc(Remove(s, k))

\* sort_values('last_scraped', ascending=False): descending, nulls last;
\* equal keys keep their original order (the sort of a short array is an
\* insertion sort).
sort_values(df) == SortDesc(NonNull(df)) \o Nulls(df)

\* drop_duplicates('p4n_id'): keep the first row of every key; keys are
\* compared as Python objects, so 100 and "100" are different keys.
RECURSIVE drop_duplicates(_)
drop_duplicates(df) ==
  IF df = <<>> THEN <<>>
  ELSE LET n == Len(df)
           init == drop_duplicates(SubSeq(df, 1, n - 1))
       IN IF \E j \in 1..(n - 1) : df[j].p4n_id = df[n].p4n_id
          THEN init ELSE Append(init, df[n])

\* ------------------------------------------------------ DailyQueueManager
\* state.get("current_index", 0) of the loaded state; an absent or
\* unreadable STATE_FILE leaves state = {"current_index": 0}.
LoadedIndex(sf) == IF sf.kind = "json" THEN sf.current_index ELSE 0

\* get_next_partition: the seed index scanned this run ([] without a URL
\* list). urls[idx] of a negative idx counts from the end of the list.
get_next_partition(ul, sf) ==
  IF ~ul.exists THEN <<>>
  ELSE LET idx == LoadedIndex(sf)
       IN <<IF idx >= ul.n THEN 0 ELSE IF idx < 0 THEN ul.n + idx ELSE idx>>

\* get_next_partition raises IndexError on urls[idx] when the list is empty.
PartitionRaises(ul) == ul.exists /\ ul.n = 0

\* get_next_partition raises outside its try on a state that json.load
\* accepted: AttributeError on state.get of a list, TypeError on
\* idx >= len(urls) of an index that is not a number.
StateRaises(ul, sf) == ul.exists /\ sf.kind = "misshapen"

\* increment_state without the wrap-around.
increment_state_NoWrap(ul, sf) ==
  IF ~ul.exists THEN sf
  ELSE JsonState(LoadedIndex(sf) + 1)

\* increment_state with the wrap tested after the limit is passed.
increment_state_WrapLate(ul, sf) ==
  IF ~ul.exists THEN sf
  ELSE JsonState(IF LoadedIndex(sf) + 1 > ul.n THEN 0 ELSE LoadedIndex(sf) + 1)

\* increment_state: the new content of STATE_FILE.
increment_state(ul, sf) ==
  IF ~ul.exists THEN sf
  ELSE JsonState((LoadedIndex(sf) + 1) % ul.n)

\* ------------------------------------------------------------ P4NScraper
CsvName(dev) == IF dev THEN DEV_CSV ELSE PROD_CSV

ZeroStats == [read |-> 0, discarded_fresh |-> 0,
              discarded_low_feedback |-> 0, gemini_calls |-> 0]

\* p_id = link.split("/")[-1]; a link is named by the id it ends with.
LinkId(link) == link

\* Rows of existing_df whose p4n_id, as a string, equals str(p_id).
Matching(df, p_id) == SelectSeq(df, LAMBDA r : r.p4n_id[2] = p_id)

\* is_stale with the age test made inclusive.
is_stale_Inclusive(df, frc, p_id, t) ==
  IF ~frc /\ df # <<>> /\ Matching(df, p_id) # <<>>
  THEN LET last_date == Matching(df, p_id)[1].last_scraped
       IN ~(~isna(last_date) /\ (t - last_date[2]) <= STALENESS_DAYS)
  ELSE TRUE

\* Lines 291-295 of start(): the staleness decision for one link.
is_stale(df, frc, p_id, t) ==
  IF ~frc /\ df # <<>> /\ Matching(df, p_id) # <<>>
  THEN LET last_date == Matching(df, p_id)[1].last_scraped
       IN ~(~isna(last_date) /\ (t - last_date[2]) < STALENESS_DAYS)
  ELSE TRUE

\* BuildQueue with the force flag left out of both tests.
RECURSIVE BuildQueue_NoForce(_, _, _, _, _, _)
BuildQueue_NoForce(links, df, dev, frc, t, acc) ==
  IF links = <<>> THEN acc
  ELSE IF dev /\ Len(acc.queue) >= DEV_LIMIT THEN acc
  ELSE LET link == Head(links)
           stale == is_stale(df, FALSE, LinkId(link), t)
       IN BuildQueue_NoForce(Tail(links), df, dev, frc, t,
            IF stale
            THEN [acc EXCEPT !.queue = Append(@, link)]
            ELSE [acc EXCEPT !.discarded_fresh = @ + 1])

\* BuildQueue with the dev limit tested after the append instead of before.
RECURSIVE BuildQueue_CapAfter(_, _, _, _, _, _)
BuildQueue_CapAfter(links, df, dev, frc, t, acc) ==
  IF links = <<>> THEN acc
  ELSE IF dev /\ Len(acc.queue) > DEV_LIMIT THEN acc
  ELSE LET link == Head(links)
           stale == is_stale(df, frc, LinkId(link), t)
       IN BuildQueue_CapAfter(Tail(links), df, dev, frc, t,
            IF stale \/ frc
            THEN [acc EXCEPT !.queue = Append(@, link)]
            ELSE [acc EXCEPT !.discarded_fresh = @ + 1])

\* Lines 287-297 of start(): the loop over the discovered links. acc holds
\* the queue and the discarded_fresh counter built so far.
RECURSIVE BuildQueue(_, _, _, _, _, _)
BuildQueue(links, df, dev, frc, t, acc) ==
  IF links = <<>> THEN acc
  ELSE IF dev /\ Len(acc.queue) >= DEV_LIMIT THEN acc
  ELSE LET link == Head(links)
           stale == is_stale(df, frc, LinkId(link), t)
       IN BuildQueue(Tail(links), df, dev, frc, t,
            IF stale \/ frc
            THEN [acc EXCEPT !.queue = Append(@, link)]
            ELSE [acc EXCEPT !.discarded_fresh = @ + 1])

\* What the AI capability does with one request: generate_content raises a
\* rate-limit error or another error, or response.text is not JSON
\* ("not_json"), is JSON but not an object ("not_object"), is an object
\* whose pros_cons is not the declared mapping ("off_schema"), or is an
\* object of the declared schema with its numeric fields null or 0.
Answers == {"rate_limit", "error", "not_json", "not_object", "off_schema",
            "null", "zero"}
\* The answers to the successive requests for one payload, should they be made.
AnswerSeqs == {<<a>> : a \in Answers} \cup
              {<<"rate_limit", b>> : b \in {"rate_limit", "zero"}}

\* The dict {} returned by the except branch of analyze_with_ai.
EmptyResult == "{}"

\* analyze_with_ai with the delay taken after the request.
analyze_with_ai_SleepAfter(st, answers) ==
  [stats |-> [st EXCEPT !.gemini_calls = @ + 1],
   requests |-> 1,
   events |-> <<<<"request", 0>>, <<"sleep", AI_DELAY>>>>,
   result |-> IF answers[1] \in {"off_schema", "null", "zero"}
              THEN answers[1] ELSE EmptyResult]

\* analyze_with_ai: one request, inside one try. generate_content raising,
\* json.loads raising and log_event raising (data.items() of a value that
\* is not a dict) all end in the except branch; a parsed object is returned
\* as it is. requests counts the calls of generate_content; events is what
\* the call does at the AI client: asyncio.sleep(AI_DELAY), then the request.
analyze_with_ai(st, answers) ==
  [stats |-> [st EXCEPT !.gemini_calls = @ + 1],
   requests |-> 1,
   events |-> <<<<"sleep", AI_DELAY>>, <<"request", 0>>>>,
   result |-> IF answers[1] \in {"off_schema", "null", "zero"}
              THEN answers[1] ELSE EmptyResult]

\* What the detail page of one item does: fault is where the page raises
\* ("navigation": goto or the wait for .place-feedback-average, "title":
\* the h1 locator, "rating": the parse of the average rating), count is the
\* parsed feedback count, answers what the AI capability would answer.
Faults == {"none", "navigation", "title", "rating"}

\* Line 203: the data-place-id of the body, or else the last segment of the
\* URL (an attribute that is missing or empty is falsy).
PlaceId(link, page) ==
  IF page.place_id # EmptyId THEN page.place_id ELSE LinkId(link)

\* extract_atomic with the enrichment called before the threshold test.
extract_atomic_AiFirst(st, batch, link, t, page) ==
  LET st1 == [st EXCEPT !.read = @ + 1]
      ai == analyze_with_ai(st1, page.answers)
  IN IF page.fault = "navigation"
     THEN [stats |-> st1, events |-> <<>>, batch |-> batch, escaped |-> FALSE]
     ELSE IF page.count < MIN_REVIEWS_THRESHOLD
     THEN [events |-> ai.events, stats |-> [ai.stats EXCEPT !.discarded_low_feedback = @ + 1],
           batch |-> batch, escaped |-> FALSE]
     ELSE IF page.fault # "none" \/ ai.result = "off_schema"
     THEN [stats |-> ai.stats, events |-> ai.events, batch |-> batch, escaped |-> FALSE]
     ELSE [stats |-> ai.stats, events |-> ai.events, escaped |-> FALSE,
           batch |-> Append(batch,
                       Row(StrId(PlaceId(link, page)), StrTs(t),
                           IF ai.result = "zero" THEN PyInt(0) ELSE None))]

\* extract_atomic without its except clause: the exception escapes.
extract_atomic_NoCatch(st, batch, link, t, page) ==
  LET st1 == [st EXCEPT !.read = @ + 1]
      ai == analyze_with_ai(st1, page.answers)
  IN IF page.fault = "navigation"
     THEN [stats |-> st1, events |-> <<>>, batch |-> batch, escaped |-> TRUE]
     ELSE IF page.count < MIN_REVIEWS_THRESHOLD
     THEN [events |-> <<>>, stats |-> [st1 EXCEPT !.discarded_low_feedback = @ + 1],
           batch |-> batch, escaped |-> FALSE]
     ELSE IF page.fault = "title"
     THEN [stats |-> st1, events |-> <<>>, batch |-> batch, escaped |-> TRUE]
     ELSE IF page.fault = "rating" \/ ai.result = "off_schema"
     THEN [stats |-> ai.stats, events |-> ai.events, batch |-> batch, escaped |-> TRUE]
     ELSE [stats |-> ai.stats, events |-> ai.events, escaped |-> FALSE,
           batch |-> Append(batch,
                       Row(StrId(PlaceId(link, page)), StrTs(t),
                           IF ai.result = "zero" THEN PyInt(0) ELSE None))]

\* extract_atomic with a missing num_places defaulted to 0.
extract_atomic_ZeroDefault(st, batch, link, t, page) ==
  LET st1 == [st EXCEPT !.read = @ + 1]
      ai == analyze_with_ai(st1, page.answers)
  IN IF page.fault = "navigation"
     THEN [stats |-> st1, events |-> <<>>, batch |-> batch, escaped |-> FALSE]
     ELSE IF page.count < MIN_REVIEWS_THRESHOLD
     THEN [events |-> <<>>, stats |-> [st1 EXCEPT !.discarded_low_feedback = @ + 1],
           batch |-> batch, escaped |-> FALSE]
     ELSE IF page.fault = "title"
     THEN [stats |-> st1, events |-> <<>>, batch |-> batch, escaped |-> FALSE]
     ELSE IF page.fault = "rating" \/ ai.result = "off_schema"
     THEN [stats |-> ai.stats, events |-> ai.events, batch |-> batch, escaped |-> FALSE]
     ELSE [stats |-> ai.stats, events |-> ai.events, escaped |-> FALSE,
           batch |-> Append(batch,
                       Row(StrId(PlaceId(link, page)), StrTs(t), PyInt(0)))]

\* extract_atomic (lines 184-247) for one queue entry: the stats and the
\* processed batch it leaves, and whether an exception escapes it. Every
\* exception raised inside (a timeout of the page, a missing element, an
\* enrichment result that is not of the expected shape) is caught by the
\* except clause and no row is appended.
extract_atomic(st, batch, link, t, page) ==
  LET st1 == [st EXCEPT !.read = @ + 1]
      ai == analyze_with_ai(st1, page.answers)
  IN IF page.fault = "navigation"
     THEN [stats |-> st1, events |-> <<>>, batch |-> batch, escaped |-> FALSE]
     ELSE IF page.count < MIN_REVIEWS_THRESHOLD
     THEN [events |-> <<>>, stats |-> [st1 EXCEPT !.discarded_low_feedback = @ + 1],
           batch |-> batch, escaped |-> FALSE]
     ELSE IF page.fault = "title"
     THEN [stats |-> st1, events |-> <<>>, batch |-> batch, escaped |-> FALSE]
     ELSE IF page.fault = "rating" \/ ai.result = "off_schema"
     THEN [stats |-> ai.stats, events |-> ai.events, batch |-> batch, escaped |-> FALSE]
     ELSE [stats |-> ai.stats, events |-> ai.events, escaped |-> FALSE,
           batch |-> Append(batch,
                       Row(StrId(PlaceId(link, page)), StrTs(t),
                           IF ai.result = "zero" THEN PyInt(0) ELSE None))]

\* Lines 309-311 of _upsert_and_save: the table handed to to_csv.
Merged(batch, df) == drop_duplicates(sort_values(concat(batch, df)))

\* ------------------------------------------------------------ initial state
\* Tables as the pipeline leaves them on disk: one row per id, sorted by
\* last_scraped descending with the unparseable cells last.
InitCells == {Text(0), Blank}
InitRowSeqs ==
  UNION {[1..n -> [p4n_id : ItemIds, last_scraped : InitCells,
                   num_places : {Text(0)}]] : n \in 1..MaxItems}
InitTables ==
  {Absent} \cup
  {Table(r) : r \in {q \in InitRowSeqs :
       /\ \A i, j \in 1..Len(q) : i < j => q[i].p4n_id < q[j].p4n_id
       /\ \A i, j \in 1..Len(q) :
            i < j => ~(q[i].last_scraped = Blank /\ q[j].last_scraped # Blank)}}

InitStates == {NoState, CorruptState} \cup {JsonState(i) : i \in 0..(MaxSeeds + 1)}
InitUrlLists == {[exists |-> FALSE, n |-> 0]} \cup
                {[exists |-> TRUE, n |-> k] : k \in 0..MaxSeeds}

Ended == {"done", "aborted", "crashed_partition", "crashed_discovery",
          "crashed_extract", "crashed_merge", "interrupted"}
Running == {"login", "partition", "discover", "extract", "increment"}

\* The initial states over the given table files and state files.
InitFrom(tables, states) ==
  /\ now = 0
  /\ runs = 0
  /\ \E t \in tables : files = [f \in {PROD_CSV, DEV_CSV} |->
                                    IF f = PROD_CSV THEN t ELSE Absent]
  /\ state_file \in states
  /\ url_list \in InitUrlLists
  /\ pc = "idle"
  /\ login_result = "pending"
  /\ is_dev = FALSE
  /\ force = FALSE
  /\ existing_df = <<>>
  /\ processed_batch = <<>>
  /\ stats = ZeroStats
  /\ target_urls = <<>>
  /\ discovered = <<>>
  /\ queue = <<>>
  /\ qpos = 0
  /\ scanned = <<>>
  /\ cursor0 = state_file
  /\ cycle = <<>>
  /\ ai_events = <<>>
  /\ in_flight = {}

\* The files as the pipeline and its operator leave them.
Init == InitFrom(InitTables, InitStates)

\* The files of Init, and files damaged from outside: a table file that
\* cannot be parsed, a state file of another shape or with a negative index.
RunInit ==
  InitFrom(InitTables \cup {Unparseable},
           InitStates \cup {MisshapenState, JsonState(-1)})

\* ------------------------------------------------------------------ actions
\* NewRun with _load_existing left without its try: a table file that
\* cannot be read ends the run in __init__.
NewRun_LoadFatal(dev, frc, d) ==
  /\ pc \in Ended \cup {"idle"}
  /\ runs < MaxRuns
  /\ runs' = runs + 1
  /\ now' = now + d
  /\ is_dev' = dev
  /\ force' = frc
  /\ existing_df' = _load_existing(files[CsvName(dev)])
  /\ processed_batch' = <<>>
  /\ stats' = ZeroStats
  /\ target_urls' = <<>>
  /\ discovered' = <<>>
  /\ queue' = <<>>
  /\ qpos' = 0
  /\ scanned' = <<>>
  /\ cursor0' = state_file
  /\ pc' = IF LoadRaises(files[CsvName(dev)]) THEN "crashed_load" ELSE "login"
  /\ login_result' = "pending"
  /\ ai_events' = <<>>
  /\ in_flight' = {}
  /\ UNCHANGED <<files, state_file, url_list, cycle>>

\* P4NScraper(is_dev, force), d days after the previous run: __init__ loads
\* the table, then start() begins.
NewRun(dev, frc, d) ==
  /\ pc \in Ended \cup {"idle"}
  /\ runs < MaxRuns
  /\ runs' = runs + 1
  /\ now' = now + d
  /\ is_dev' = dev
  /\ force' = frc
  /\ existing_df' = _load_existing(files[CsvName(dev)])
  /\ processed_batch' = <<>>
  /\ stats' = ZeroStats
  /\ target_urls' = <<>>
  /\ discovered' = <<>>
  /\ queue' = <<>>
  /\ qpos' = 0
  /\ scanned' = <<>>
  /\ cursor0' = state_file
  /\ pc' = "login"
  /\ login_result' = "pending"
  /\ ai_events' = <<>>
  /\ in_flight' = {}
  /\ UNCHANGED <<files, state_file, url_list, cycle>>

\* Line 264: login() returned True.
LoginOk ==
  /\ pc = "login"
  /\ pc' = "partition"
  /\ login_result' = "True"
  /\ UNCHANGED <<now, runs, files, state_file, url_list, is_dev, force,
                 existing_df, processed_batch, stats, target_urls, discovered,
                 queue, qpos, scanned, cursor0, cycle,
                 ai_events, in_flight>>

\* login() returned False and the run goes on whatever its mode.
LoginFailed_Proceeds ==
  /\ pc = "login"
  /\ pc' = "partition"
  /\ login_result' = "False"
  /\ UNCHANGED <<now, runs, files, state_file, url_list, is_dev, force,
                 existing_df, processed_batch, stats, target_urls, discovered,
                 queue, qpos, scanned, cursor0, cycle,
                 ai_events, in_flight>>

\* login() returned False and the run stops whatever its mode.
LoginFailed_Fatal ==
  /\ pc = "login"
  /\ pc' = "aborted"
  /\ login_result' = "False"
  /\ UNCHANGED <<now, runs, files, state_file, url_list, is_dev, force,
                 existing_df, processed_batch, stats, target_urls, discovered,
                 queue, qpos, scanned, cursor0, cycle,
                 ai_events, in_flight>>

\* Lines 264-267: login() returned False (missing credentials, or an
\* exception of the page, lines 116-118 and 140-142); a non-dev run stops here.
LoginFailed ==
  /\ pc = "login"
  /\ pc' = IF is_dev THEN "partition" ELSE "aborted"
  /\ login_result' = "False"
  /\ cycle' = IF is_dev THEN cycle ELSE <<>>
  /\ UNCHANGED <<now, runs, files, state_file, url_list, is_dev, force,
                 existing_df, processed_batch, stats, target_urls, discovered,
                 queue, qpos, scanned, cursor0,
                 ai_events, in_flight>>

\* get_next_partition that also advances the cursor when it hands out the seed.
GetNextPartition_Advances ==
  /\ pc = "partition"
  /\ ~PartitionRaises(url_list)
  /\ ~StateRaises(url_list, state_file)
  /\ pc' = "discover"
  /\ target_urls' = get_next_partition(url_list, state_file)
  /\ state_file' = increment_state(url_list, state_file)
  /\ UNCHANGED <<now, runs, files, url_list, is_dev, force, existing_df,
                 processed_batch, stats, discovered, queue, qpos, scanned,
                 cursor0, cycle,
                 login_result,
                 ai_events, in_flight>>

\* Line 269: DailyQueueManager.get_next_partition().
GetNextPartition ==
  /\ pc = "partition"
  /\ IF PartitionRaises(url_list) \/ StateRaises(url_list, state_file)
     THEN /\ pc' = "crashed_partition"
          /\ cycle' = <<>>
          /\ UNCHANGED target_urls
     ELSE /\ pc' = "discover"
          /\ target_urls' = get_next_partition(url_list, state_file)
          /\ UNCHANGED cycle
  /\ UNCHANGED <<now, runs, files, state_file, url_list, is_dev, force,
                 existing_df, processed_batch, stats, discovered, queue, qpos,
                 scanned, cursor0,
                 login_result,
                 ai_events, in_flight>>

\* The lists list(set(discovery_links)) can be: any links, in any order.
LinkLists ==
  {q \in UNION {[1..n -> ItemIds] : n \in 0..MaxItems} :
     \A i, j \in 1..Len(q) : i # j => q[i] # q[j]}

\* Lines 272-297: the seed pages are fetched, their links collected, and
\* the queue is built from them.
Discover(links) ==
  /\ pc = "discover"
  /\ target_urls = <<>> => links = <<>>
  /\ scanned' = target_urls
  /\ discovered' = links
  /\ LET built == BuildQueue(links, existing_df, is_dev, force, now,
                             [queue |-> <<>>, discarded_fresh |-> 0])
     IN /\ queue' = built.queue
        /\ stats' = [stats EXCEPT !.discarded_fresh = built.discarded_fresh]
  /\ pc' = "extract"
  /\ UNCHANGED <<now, runs, files, state_file, url_list, is_dev, force,
                 existing_df, processed_batch, target_urls, qpos, cursor0, cycle,
                 login_result,
                 ai_events, in_flight>>

\* Line 275: page.goto(url) of a seed page raises; nothing catches it.
DiscoverRaises ==
  /\ pc = "discover"
  /\ target_urls # <<>>
  /\ scanned' = target_urls
  /\ pc' = "crashed_discovery"
  /\ cycle' = <<>>
  /\ UNCHANGED <<now, runs, files, state_file, url_list, is_dev, force,
                 existing_df, processed_batch, stats, target_urls, discovered,
                 queue, qpos, cursor0,
                 login_result,
                 ai_events, in_flight>>

\* Feedback counts a detail page can show: below and at the threshold.
FeedbackCounts == {0, MIN_REVIEWS_THRESHOLD - 1, MIN_REVIEWS_THRESHOLD}

\* The detail pages an extraction can meet (the inputs that do not matter
\* to an outcome are fixed).
Pages ==
  [fault : {"navigation"}, count : {0}, answers : {<<"zero">>},
   place_id : {EmptyId}] \cup
  [fault : {"none"}, count : FeedbackCounts \ {MIN_REVIEWS_THRESHOLD},
   answers : {<<"zero">>}, place_id : {EmptyId}] \cup
  [fault : {"title"}, count : {MIN_REVIEWS_THRESHOLD}, answers : {<<"zero">>},
   place_id : {EmptyId}] \cup
  [fault : {"none", "rating"}, count : {MIN_REVIEWS_THRESHOLD},
   answers : AnswerSeqs, place_id : {EmptyId}]

\* The pages met across several runs: the item page loads or times out,
\* and the enrichment answers.
PlainPages ==
  {page \in Pages : page.fault \in {"none", "navigation"} /\ page.answers = <<"zero">>}

\* The extraction loop with the table saved after every item.
ExtractAtomic_SavesEach(page) ==
  /\ pc = "extract"
  /\ qpos < Len(queue)
  /\ qpos' = qpos + 1
  /\ LET out == extract_atomic(stats, processed_batch, queue[qpos + 1], now, page)
     IN /\ stats' = out.stats
        /\ processed_batch' = out.batch
        /\ pc' = IF out.escaped THEN "crashed_extract" ELSE pc
        /\ ai_events' = ai_events \o out.events
        /\ in_flight' = in_flight \ {qpos + 1}
        /\ files' = IF out.batch = <<>> \/ SortRaises(concat(out.batch, existing_df))
                    THEN files
                    ELSE [files EXCEPT ![CsvName(is_dev)] =
                            to_csv(Merged(out.batch, existing_df))]
  /\ UNCHANGED <<now, runs, state_file, url_list, is_dev, force,
                 existing_df, target_urls, discovered, queue, scanned, cursor0,
                 cycle, login_result>>

\* Lines 299-300: extract_atomic for the next queue entry. A run lasts less
\* than a day, so datetime.now() is the day the run began. The loop has no
\* try: an exception escaping extract_atomic would end start().
ExtractAtomic(page) ==
  /\ pc = "extract"
  /\ qpos < Len(queue)
  /\ qpos' = qpos + 1
  /\ LET out == extract_atomic(stats, processed_batch, queue[qpos + 1], now, page)
     IN /\ stats' = out.stats
        /\ processed_batch' = out.batch
        /\ pc' = IF out.escaped THEN "crashed_extract" ELSE pc
        /\ ai_events' = ai_events \o out.events
  /\ in_flight' = in_flight \ {qpos + 1}
  /\ UNCHANGED <<now, runs, files, state_file, url_list, is_dev, force,
                 existing_df, target_urls, discovered, queue, scanned, cursor0,
                 cycle, login_result>>

\* The loop with every remaining entry started at once, none awaited.
ExtractBegin_Eager ==
  /\ pc = "extract"
  /\ \E k \in (qpos + 1)..Len(queue) :
        /\ k \notin in_flight
        /\ in_flight' = in_flight \cup {k}
  /\ UNCHANGED <<now, runs, files, state_file, url_list, pc, login_result,
                 is_dev, force, existing_df, processed_batch, stats,
                 target_urls, discovered, queue, qpos, scanned, cursor0, cycle,
                 ai_events>>

\* Line 300, up to the await: extract_atomic is called for the next queue
\* entry. The loop awaits each call, so the call of an entry is made once
\* the call of the entry before has returned.
ExtractBegin ==
  /\ pc = "extract"
  /\ qpos < Len(queue)
  /\ in_flight = {}
  /\ in_flight' = {qpos + 1}
  /\ UNCHANGED <<now, runs, files, state_file, url_list, pc, login_result,
                 is_dev, force, existing_df, processed_batch, stats,
                 target_urls, discovered, queue, qpos, scanned, cursor0, cycle,
                 ai_events>>

\* _upsert_and_save with the exception of the merge swallowed: the run goes
\* on to its end.
UpsertAndSave_Swallows ==
  /\ pc = "extract"
  /\ qpos = Len(queue)
  /\ pc' = "increment"
  /\ files' = IF processed_batch = <<>> \/
                 SortRaises(concat(processed_batch, existing_df))
              THEN files
              ELSE [files EXCEPT ![CsvName(is_dev)] =
                      to_csv(Merged(processed_batch, existing_df))]
  /\ UNCHANGED <<now, runs, state_file, url_list, is_dev, force, existing_df,
                 processed_batch, stats, target_urls, discovered, queue, qpos,
                 scanned, cursor0, cycle, login_result, ai_events, in_flight>>

\* _upsert_and_save that lets every new row replace the existing rows of its
\* id, without comparing their last_scraped.
UpsertAndSave_NewReplaces ==
  /\ pc = "extract"
  /\ qpos = Len(queue)
  /\ pc' = "increment"
  /\ files' = IF processed_batch = <<>> THEN files
              ELSE [files EXCEPT ![CsvName(is_dev)] =
                      to_csv(processed_batch \o
                             SelectSeq(existing_df, LAMBDA r :
                               \A i \in 1..Len(processed_batch) :
                                  processed_batch[i].p4n_id[2] # r.p4n_id[2]))]
  /\ UNCHANGED <<now, runs, state_file, url_list, is_dev, force, existing_df,
                 processed_batch, stats, target_urls, discovered, queue, qpos,
                 scanned, cursor0, cycle, login_result, ai_events, in_flight>>

\* Lines 302-303 and _upsert_and_save, after the last queue entry.
UpsertAndSave ==
  /\ pc = "extract"
  /\ qpos = Len(queue)
  /\ IF processed_batch = <<>>
     THEN /\ pc' = "increment"
          /\ UNCHANGED <<files, cycle>>
     ELSE IF SortRaises(concat(processed_batch, existing_df))
     THEN /\ pc' = "crashed_merge"
          /\ cycle' = <<>>
          /\ UNCHANGED files
     ELSE /\ pc' = "increment"
          /\ files' = [files EXCEPT ![CsvName(is_dev)] =
                         to_csv(Merged(processed_batch, existing_df))]
          /\ UNCHANGED cycle
  /\ UNCHANGED <<now, runs, state_file, url_list, is_dev, force, existing_df,
                 processed_batch, stats, target_urls, discovered, queue, qpos,
                 scanned, cursor0,
                 login_result,
                 ai_events, in_flight>>

\* The seeds of the latest consecutive completed runs, at most one round.
LastRound(s, n) == IF Len(s) > n THEN SubSeq(s, Len(s) - n + 1, Len(s)) ELSE s

\* The end of the run with increment_state() called whatever the mode.
IncrementState_AnyMode ==
  /\ pc = "increment"
  /\ state_file' = increment_state(url_list, state_file)
  /\ cycle' = IF is_dev THEN <<>> ELSE LastRound(cycle \o scanned, url_list.n)
  /\ pc' = "done"
  /\ UNCHANGED <<now, runs, files, url_list, is_dev, force, existing_df,
                 processed_batch, stats, target_urls, discovered, queue, qpos,
                 scanned, cursor0, login_result, ai_events, in_flight>>

\* The end of the run with the cursor left alone when nothing was extracted.
IncrementState_SkipsEmpty ==
  /\ pc = "increment"
  /\ state_file' = IF is_dev \/ processed_batch = <<>> THEN state_file
                   ELSE increment_state(url_list, state_file)
  /\ cycle' = IF is_dev THEN <<>> ELSE LastRound(cycle \o scanned, url_list.n)
  /\ pc' = "done"
  /\ UNCHANGED <<now, runs, files, url_list, is_dev, force, existing_df,
                 processed_batch, stats, target_urls, discovered, queue, qpos,
                 scanned, cursor0, login_result, ai_events, in_flight>>

\* Lines 304-305: the summary, then increment_state() unless is_dev.
IncrementState ==
  /\ pc = "increment"
  /\ state_file' = IF is_dev THEN state_file
                   ELSE increment_state(url_list, state_file)
  /\ cycle' = IF is_dev THEN <<>> ELSE LastRound(cycle \o scanned, url_list.n)
  /\ pc' = "done"
  /\ UNCHANGED <<now, runs, files, url_list, is_dev, force, existing_df,
                 processed_batch, stats, target_urls, discovered, queue, qpos,
                 scanned, cursor0,
                 login_result,
                 ai_events, in_flight>>

\* The process is interrupted (killed) somewhere inside start(); what it
\* held in memory is gone, what is on disk stays.
Interrupt ==
  /\ pc \in Running
  /\ pc' = "interrupted"
  /\ login_result' = "pending"
  /\ cycle' = <<>>
  /\ existing_df' = <<>>
  /\ processed_batch' = <<>>
  /\ stats' = ZeroStats
  /\ target_urls' = <<>>
  /\ discovered' = <<>>
  /\ queue' = <<>>
  /\ qpos' = 0
  /\ ai_events' = <<>>
  /\ in_flight' = {}
  /\ UNCHANGED <<now, runs, files, state_file, url_list, is_dev, force,
                 scanned, cursor0>>

Next ==
  \/ \E dev \in BOOLEAN, frc \in BOOLEAN, d \in {0, 1, STALENESS_DAYS} :
        NewRun(dev, frc, d)
  \/ LoginOk
  \/ LoginFailed
  \/ GetNextPartition
  \/ \E links \in LinkLists : Discover(links)
  \/ DiscoverRaises
  \/ \E page \in PlainPages : ExtractAtomic(page)
  \/ UpsertAndSave
  \/ IncrementState
  \/ Interrupt

Spec == Init /\ [][Next]_vars

\* One run of the pipeline, a day after the initial state, from every
\* initial state, over every page and every answer of the AI capability.
NextRun ==
  \/ \E dev \in BOOLEAN, frc \in BOOLEAN : runs = 0 /\ NewRun(dev, frc, 1)
  \/ LoginOk
  \/ LoginFailed
  \/ GetNextPartition
  \/ \E links \in LinkLists : Discover(links)
  \/ DiscoverRaises
  \/ \E page \in Pages : ExtractAtomic(page)
  \/ UpsertAndSave
  \/ IncrementState
  \/ Interrupt

RunSpec == RunInit /\ [][NextRun]_vars

\* Two runs in a row with the clock of the second a day ahead of or a day
\* behind the clock of the first (datetime.now() is the local time of the
\* machine the run is on).
NextSkew ==
  \/ \E dev \in BOOLEAN, frc \in BOOLEAN, d \in {-1, 1} : NewRun(dev, frc, d)
  \/ LoginOk
  \/ LoginFailed
  \/ GetNextPartition
  \/ \E links \in LinkLists : Discover(links)
  \/ DiscoverRaises
  \/ \E page \in PlainPages : ExtractAtomic(page)
  \/ UpsertAndSave
  \/ IncrementState
  \/ Interrupt

SkewSpec == Init /\ [][NextSkew]_vars

\* The links a seed page can hold: those of the items, and one that ends in
\* "/" (every href containing /place/ is collected, line 277).
PageLinkLists ==
  {q \in UNION {[1..n -> ItemIds \cup {EmptyId}] : n \in 0..MaxItems} :
     \A i, j \in 1..Len(q) : i # j => q[i] # q[j]}

\* Detail pages by what their body carries as data-place-id: the id of an
\* item, or nothing.
DetailPages ==
  [fault : {"navigation"}, count : {0}, answers : {<<"zero">>},
   place_id : {EmptyId}] \cup
  [fault : {"none"}, count : {MIN_REVIEWS_THRESHOLD}, answers : {<<"zero">>},
   place_id : ItemIds \cup {EmptyId}]

\* One run of the pipeline seen at the page: every link a seed page can
\* hold, every data-place-id, and the call and the return of extract_atomic
\* as two steps.
NextPage ==
  \/ \E dev \in BOOLEAN, frc \in BOOLEAN : runs = 0 /\ NewRun(dev, frc, 1)
  \/ LoginOk
  \/ LoginFailed
  \/ GetNextPartition
  \/ \E links \in PageLinkLists : Discover(links)
  \/ DiscoverRaises
  \/ ExtractBegin
  \/ \E page \in DetailPages : qpos + 1 \in in_flight /\ ExtractAtomic(page)
  \/ UpsertAndSave
  \/ IncrementState
  \/ Interrupt

PageSpec == Init /\ [][NextPage]_vars

\* ------------------------------------------------------------ observations
CsvNames == {PROD_CSV, DEV_CSV}
\* The table file of the current run.
CsvFile == files[CsvName(is_dev)]
FileIds(f) == {f.rows[i].p4n_id : i \in 1..Len(f.rows)}
FileRows(f, v) == {i \in 1..Len(f.rows) : f.rows[i].p4n_id = v}
ExistingIds == {existing_df[i].p4n_id[2] : i \in 1..Len(existing_df)}
BatchIds == {processed_batch[i].p4n_id[2] : i \in 1..Len(processed_batch)}
ExistingRows(v) == {i \in 1..Len(existing_df) : existing_df[i].p4n_id[2] = v}
BatchRows(v) == {i \in 1..Len(processed_batch) : processed_batch[i].p4n_id[2] = v}
\* _upsert_and_save has been called with a non-empty batch and has returned
\* or raised.
MergeAttempted ==
  pc \in {"increment", "done", "crashed_merge"} /\ processed_batch # <<>>

\* ------------------------------------------------------------------ claims

\* C1: every table file holds at most one row per item_id (p4n_id), after
\* any sequence of runs and for any existing table and batch.
C1_OneRowPerItem ==
  \A f \in CsvNames : \A i, j \in 1..Len(files[f].rows) :
     i # j => files[f].rows[i].p4n_id # files[f].rows[j].p4n_id

\* C2: once the merge of a run has been attempted, every item_id present in
\* both the existing table and the new rows has exactly one row in the table
\* file, and it carries the greater of the two last_scraped values.
C2_DedupKeepsGreater ==
  MergeAttempted =>
    \A v \in ExistingIds \cap BatchIds :
       /\ Cardinality(FileRows(CsvFile, v)) = 1
       /\ \A i \in FileRows(CsvFile, v) :
            /\ CsvFile.rows[i].last_scraped[1] = "text"
            /\ \A k \in BatchRows(v) :
                 CsvFile.rows[i].last_scraped[2] >= processed_batch[k].last_scraped[2]
            /\ \A k \in ExistingRows(v) :
                 ~isna(existing_df[k].last_scraped) =>
                   CsvFile.rows[i].last_scraped[2] >= existing_df[k].last_scraped[2]

\* C3: when the table loaded by a run holds a Record of an item with
\* last_scraped = T and the run re-extracts the item with last_scraped =
\* T' > T, the table file afterwards holds exactly one row of the item, and
\* its last_scraped is T'.
C3_ReextractReplaces ==
  MergeAttempted =>
    \A v \in ItemIds : \A e \in ExistingRows(v) : \A b \in BatchRows(v) :
       (/\ ~isna(existing_df[e].last_scraped)
        /\ processed_batch[b].last_scraped[2] > existing_df[e].last_scraped[2])
       => /\ Cardinality(FileRows(CsvFile, v)) = 1
          /\ \A i \in FileRows(CsvFile, v) :
               CsvFile.rows[i].last_scraped = Text(processed_batch[b].last_scraped[2])

\* C4: a run that merges never deletes a Record and adds the new ones: every
\* item_id of the table loaded by the run and every item_id of the new rows
\* is in the table file afterwards.
C4_NeverDeletesAndAdds ==
  MergeAttempted =>
    /\ ExistingIds \subseteq FileIds(CsvFile)
    /\ BatchIds \subseteq FileIds(CsvFile)

\* C5: when the merge step fails, _upsert_and_save does not raise and appends
\* the new rows: afterwards the table file exists and holds every item_id of
\* the processed batch.
C5_FallbackAppends ==
  (MergeAttempted /\ SortRaises(concat(processed_batch, existing_df))) =>
    /\ pc # "crashed_merge"
    /\ CsvFile.exists
    /\ BatchIds \subseteq FileIds(CsvFile)

\* The queue of the run has been built.
QueueBuilt == pc \in {"extract", "increment", "done", "crashed_merge"}
Links(q) == {q[i] : i \in 1..Len(q)}
\* The Record the Queue Builder looks at: the first row of the loaded table
\* whose p4n_id reads as the link's id.
HasRecord(link) == ExistingRows(LinkId(link)) # {}
RecordOf(link) ==
  existing_df[CHOOSE i \in ExistingRows(LinkId(link)) :
                 \A j \in ExistingRows(LinkId(link)) : i <= j]
\* The Record's last_scraped is within staleness_threshold of now.
Fresh(link) ==
  /\ HasRecord(link)
  /\ ~isna(RecordOf(link).last_scraped)
  /\ now - RecordOf(link).last_scraped[2] < STALENESS_DAYS
\* The Record's last_scraped is at least staleness_threshold older than now.
Outdated(link) ==
  /\ HasRecord(link)
  /\ ~isna(RecordOf(link).last_scraped)
  /\ now - RecordOf(link).last_scraped[2] >= STALENESS_DAYS

\* C6 as stated: with force = false a discovered item is queued if and only
\* if it has no Record or its Record is at least staleness_threshold old, and
\* every discovered item with a fresh Record is counted in discarded_fresh.
C6_AsStated ==
  (QueueBuilt /\ ~force) =>
    /\ \A link \in Links(discovered) :
         link \in Links(queue) <=> (~HasRecord(link) \/ Outdated(link))
    /\ stats.discarded_fresh = Cardinality({l \in Links(discovered) : Fresh(l)})

\* C6 (amended): with force = false, in a non-dev run, a discovered item is
\* queued if and only if it is stale: it has no Record, its Record's
\* last_scraped is null, or that last_scraped is at least staleness_threshold
\* old; the other discovered items are exactly those counted in
\* discarded_fresh.
C6_StalenessFilter ==
  (QueueBuilt /\ ~force /\ ~is_dev) =>
    /\ \A link \in Links(discovered) :
         link \in Links(queue) <=>
           \/ ~HasRecord(link)
           \/ isna(RecordOf(link).last_scraped)
           \/ Outdated(link)
    /\ \A link \in Links(discovered) : Fresh(link) => link \notin Links(queue)
    /\ stats.discarded_fresh = Cardinality({l \in Links(discovered) : Fresh(l)})

\* C6 witness: a non-dev run without force found a fresh item, which it
\* left out and counted, next to an outdated one and a new one, both queued.
C6_Witness ==
  /\ QueueBuilt /\ ~force /\ ~is_dev
  /\ stats.discarded_fresh = 1
  /\ \E a, b \in Links(discovered) :
       /\ Fresh(a) /\ a \notin Links(queue)
       /\ ~HasRecord(b) /\ b \in Links(queue)

\* C6 witness of the boundary: a Record exactly staleness_threshold old.
C6_WitnessOutdated ==
  /\ QueueBuilt /\ ~force /\ ~is_dev
  /\ \E a \in Links(discovered) :
       /\ Outdated(a) /\ a \in Links(queue)
       /\ now - RecordOf(a).last_scraped[2] = STALENESS_DAYS

\* C7: with force = true no discovered item is left out for freshness:
\* discarded_fresh stays 0, a non-dev run queues the whole discovered set,
\* and a dev run queues the first DEV_LIMIT discovered items whatever their
\* Records.
C7_ForceQueuesAll ==
  (QueueBuilt /\ force) =>
    /\ stats.discarded_fresh = 0
    /\ ~is_dev => queue = discovered
    /\ is_dev => queue = SubSeq(discovered, 1,
                   IF Len(discovered) < DEV_LIMIT THEN Len(discovered) ELSE DEV_LIMIT)

\* C7 witness: a forced non-dev run queued a fresh item and a new one.
C7_Witness ==
  /\ QueueBuilt /\ force /\ ~is_dev
  /\ \E a, b \in Links(queue) : Fresh(a) /\ ~HasRecord(b)

\* The run started with a persisted current_index = k, 0 <= k < N.
CursorInRange ==
  /\ url_list.exists /\ url_list.n >= 1
  /\ cursor0.kind = "json"
  /\ cursor0.current_index < url_list.n

\* C8 as stated: a run that completes with persisted current_index = k in
\* range has scanned exactly seed k and leaves current_index = (k+1) mod N.
C8_AsStated ==
  (pc = "done" /\ CursorInRange) =>
    /\ scanned = <<cursor0.current_index>>
    /\ state_file = JsonState((cursor0.current_index + 1) % url_list.n)

\* C8 (amended): a run that completes with persisted current_index = k in
\* range has scanned exactly seed k; a non-dev run leaves current_index =
\* (k+1) mod N, a dev run leaves the state file as it was.
C8_Rotation ==
  (pc = "done" /\ CursorInRange) =>
    /\ scanned = <<cursor0.current_index>>
    /\ ~is_dev => state_file = JsonState((cursor0.current_index + 1) % url_list.n)
    /\ is_dev => state_file = cursor0

\* C8 witness: a completed non-dev run wrapped the cursor from N-1 to 0.
C8_Witness ==
  /\ pc = "done" /\ ~is_dev /\ CursorInRange
  /\ url_list.n = 2
  /\ cursor0.current_index = 1
  /\ scanned = <<1>>
  /\ state_file = JsonState(0)

\* The run ended without completing.
Failed == pc \in Ended \ {"done"}

\* C9: a run that fails or crashes (login abort, exception in the partition
\* or discovery step, exception in the merge, interruption) leaves the
\* persisted current_index as it was when the run started.
C9_FailedRunKeepsCursor == Failed => state_file = cursor0

\* C9 witness: a non-dev run past its discovery crashed in the merge, with a
\* cursor on disk that a completed run would have changed.
C9_Witness ==
  /\ pc = "crashed_merge" /\ ~is_dev
  /\ scanned # <<>>
  /\ state_file = cursor0
  /\ increment_state(url_list, state_file) # state_file

\* C10: N consecutive completed (production) runs over a list of N seeds
\* have scanned every seed exactly once, whatever the starting cursor.
C10_FullCoverage ==
  (url_list.exists /\ url_list.n >= 1 /\ Len(cycle) = url_list.n) =>
    /\ Links(cycle) = 0..(url_list.n - 1)

\* Some queue entry of the run is still unprocessed (or the queue is not
\* built yet).
Unfinished ==
  /\ pc \in Running
  /\ pc \in {"login", "partition", "discover"} \/ qpos < Len(queue)

\* The table file of the run and the state file are as the run found them.
NothingWritten ==
  /\ state_file = cursor0
  /\ _load_existing(CsvFile) = existing_df

\* The writes a step may make: a table file only when it leaves the
\* extraction loop after the last entry (and only the table of the run's
\* mode), the state file only as the last step of the run, none when the
\* run is interrupted.
WritesAtEnd ==
  /\ files' # files =>
       /\ pc = "extract" /\ qpos = Len(queue) /\ pc' = "increment"
       /\ \A f \in CsvNames \ {CsvName(is_dev)} : files'[f] = files[f]
  /\ state_file' # state_file => (pc = "increment" /\ pc' = "done")
  /\ pc' = "interrupted" => (files' = files /\ state_file' = state_file)

\* C11: within one run the table file and the partition cursor are each
\* written at most once and only after every queue entry has been processed:
\* while some queue entry is unprocessed both are as the run found them, and
\* every step writes only as WritesAtEnd allows (an interruption writes
\* nothing).
C11_WritesOnlyAtEnd ==
  [](Unfinished => NothingWritten) /\ [][WritesAtEnd]_vars

\* C11 witness: a non-dev run over a queue of two entries has written the
\* table and then the cursor, after both entries were processed.
C11_Witness ==
  /\ pc = "done" /\ ~is_dev
  /\ Len(queue) = 2 /\ qpos = 2
  /\ processed_batch # <<>>
  /\ _load_existing(CsvFile) # existing_df
  /\ state_file # cursor0

\* The detail pages that show a feedback count below the threshold, whatever
\* else they and the AI capability would do.
LowSignalPages ==
  [fault : Faults \ {"navigation"}, count : {0, MIN_REVIEWS_THRESHOLD - 1},
   answers : {<<"zero">>, <<"error">>}, place_id : {EmptyId}]

\* The step by which extract_atomic discards one item.
Discarded ==
  /\ stats'.gemini_calls = stats.gemini_calls
  /\ processed_batch' = processed_batch
  /\ stats'.discarded_low_feedback = stats.discarded_low_feedback + 1

\* C12: a queued item whose parsed feedback count is below
\* MIN_REVIEWS_THRESHOLD is discarded: its extraction does not call the
\* enrichment (gemini_calls stays), appends no row and adds one to
\* discarded_low_feedback; so the enrichment calls never exceed the items
\* read and not discarded, and the rows never exceed the enrichment calls.
C12_LowSignalDiscard ==
  /\ [][qpos' # qpos =>
          \A page \in LowSignalPages : ExtractAtomic(page) => Discarded]_vars
  /\ [](/\ stats.gemini_calls + stats.discarded_low_feedback <= stats.read
        /\ Len(processed_batch) <= stats.gemini_calls)

\* C12 witness: of two items read, one was discarded for low feedback and
\* the other one enriched and kept.
C12_Witness ==
  /\ pc = "extract" /\ qpos = 2
  /\ stats.read = 2
  /\ stats.discarded_low_feedback = 1
  /\ stats.gemini_calls = 1
  /\ Len(processed_batch) = 1

\* The detail pages of items that pass the threshold and load without a
\* fault, while the AI capability raises an error at every request.
EnrichmentFailsPages ==
  {page \in Pages :
     /\ page.fault = "none" /\ page.count >= MIN_REVIEWS_THRESHOLD
     /\ \A i \in 1..Len(page.answers) : page.answers[i] \in {"rate_limit", "error"}}

\* The table file holds the row b of the batch: its scraped fields as
\* scraped, its AI-derived field empty.
PersistedDegraded(b) ==
  \E i \in 1..Len(CsvFile.rows) :
     /\ CsvFile.rows[i].p4n_id = b.p4n_id[2]
     /\ CsvFile.rows[i].last_scraped = Text(b.last_scraped[2])
     /\ CsvFile.rows[i].num_places = Blank

\* C13: when the AI capability raises an error at every attempt for an item
\* that passed the feedback threshold, a Record of the item is still
\* produced (its scraped fields populated, its AI-derived fields null), and
\* once the run has merged, that Record is in the table file.
C13_DegradedRecordPersisted ==
  /\ [][\A page \in EnrichmentFailsPages :
          ExtractAtomic(page) =>
            processed_batch' =
              Append(processed_batch,
                     Row(StrId(LinkId(queue[qpos + 1])), StrTs(now), None))]_vars
  /\ [](MergeAttempted =>
          \A k \in 1..Len(processed_batch) :
             processed_batch[k].num_places = None =>
               PersistedDegraded(processed_batch[k]))

\* The detail pages of items that pass the threshold and load without a
\* fault, while the AI capability answers the first request with a
\* rate-limit error and would answer a second one.
RateLimitedPages ==
  {page \in Pages :
     /\ page.fault = "none" /\ page.count >= MIN_REVIEWS_THRESHOLD
     /\ Len(page.answers) = 2 /\ page.answers[1] = "rate_limit"}

\* C14: when a request to the AI capability fails with a rate-limit error
\* the request is retried: analyze_with_ai makes more than one request for
\* the payload, and when the retry is answered the Record carries the
\* answer (the empty result is returned only once the retries are exhausted).
C14_RetriesOnRateLimit ==
  [][\A page \in RateLimitedPages :
        ExtractAtomic(page) =>
          /\ analyze_with_ai(stats, page.answers).requests > 1
          /\ page.answers[2] = "zero" =>
                processed_batch' =
                  Append(processed_batch,
                         Row(StrId(LinkId(queue[qpos + 1])), StrTs(now), PyInt(0)))]_vars

\* The detail pages of items that pass the threshold and load without a
\* fault, while the AI capability raises an error or returns a text that is
\* not an object of the declared schema.
UnusableAnswerPages ==
  {page \in Pages :
     /\ page.fault = "none" /\ page.count >= MIN_REVIEWS_THRESHOLD
     /\ page.answers[1] \in {"rate_limit", "error", "not_json", "not_object",
                              "off_schema"}}

\* C15: analyze_with_ai never lets an error reach the pipeline: for every
\* error of the provider and every response text that does not parse as the
\* declared schema it returns the empty result, and the run goes on with the
\* next queue entry.
C15_AnalyzeReturnsEmpty ==
  [][\A page \in UnusableAnswerPages :
        ExtractAtomic(page) =>
          /\ analyze_with_ai(stats, page.answers).result = EmptyResult
          /\ pc' = "extract"
          /\ qpos' = qpos + 1]_vars

\* The detail pages on which the extraction of the item fails: the page
\* raises (navigation or readiness timeout, a missing element) or the
\* enrichment result makes the row building raise.
FailingPages ==
  {page \in Pages :
     \/ page.fault = "navigation"
     \/ /\ page.count >= MIN_REVIEWS_THRESHOLD
        /\ page.fault # "none" \/ page.answers[1] = "off_schema"}

\* The run is at or past its merge step.
MergeReached == pc \in {"increment", "done", "crashed_merge"}

\* The extraction loop is left only by an interruption or, after the last
\* entry, into the merge step.
LoopRunsToTheEnd ==
  (pc = "extract" /\ pc' # "extract") =>
     \/ pc' = "interrupted"
     \/ qpos = Len(queue) /\ MergeReached'

\* C16: a failing extraction of a queue entry is not fatal: it appends no
\* row and leaves the run in the extraction loop at the next entry; the loop
\* is left only after its last entry (or by an interruption), so that a run
\* at its merge step has handed every queue entry to extract_atomic.
C16_ExtractionFailureNonFatal ==
  /\ [][qpos' # qpos =>
          \A page \in FailingPages :
             ExtractAtomic(page) =>
               /\ processed_batch' = processed_batch
               /\ pc' = "extract"
               /\ qpos' = qpos + 1]_vars
  /\ [][LoopRunsToTheEnd]_vars
  /\ [](MergeReached => (qpos = Len(queue) /\ stats.read = Len(queue)))

\* C16 witness: the extraction of the first of two queue entries failed, the
\* second one was extracted into the batch and the merge step has run.
C16_Witness ==
  /\ pc = "increment"
  /\ Len(queue) = 2 /\ stats.read = 2
  /\ stats.discarded_low_feedback = 0
  /\ Len(processed_batch) = 1
  /\ processed_batch[1].p4n_id = StrId(LinkId(queue[2]))

\* C17: a failure to render a seed listing page (navigation timeout, item
\* links not found) is caught and does not abort the run: the discovery step
\* always hands its result, the links of the seeds that succeeded, to the
\* queue building (unless the run is interrupted).
C17_SeedFailureCaught ==
  [][(pc = "discover" /\ pc' # "discover") =>
        pc' \in {"extract", "interrupted"}]_vars

\* C18: a non-dev run whose login failed is aborted before discovery: it is
\* at its end without a seed page fetched, a partition taken, a queue built,
\* an item read, an enrichment call or a row, and the table file and the
\* state file are as the run found them.
C18_LoginFailureAborts ==
  (~is_dev /\ login_result = "False") =>
    /\ pc = "aborted"
    /\ scanned = <<>> /\ target_urls = <<>>
    /\ discovered = <<>> /\ queue = <<>> /\ qpos = 0
    /\ stats = ZeroStats
    /\ processed_batch = <<>>
    /\ NothingWritten

\* C18 witness: a non-dev run with a table on disk and a seed to scan was
\* aborted by a failed login.
C18_Witness ==
  /\ pc = "aborted" /\ ~is_dev /\ login_result = "False"
  /\ CsvFile.exists /\ existing_df # <<>>
  /\ url_list.exists /\ url_list.n >= 1

\* C19: in a dev run a failed login (missing credentials included) is not
\* fatal: the step that finds the login failed goes on to the partition
\* step, and a dev run whose login failed is never in the aborted state: it
\* is somewhere between the partition step and its end.
C19_DevLoginFailureNonFatal ==
  /\ [][(is_dev /\ pc = "login" /\ login_result' = "False") =>
          pc' = "partition"]_vars
  /\ [](is_dev /\ login_result = "False" =>
          pc \in (Running \ {"login"}) \cup (Ended \ {"aborted", "interrupted"}))

\* C19 witness: a dev run whose login failed went through discovery, queue
\* building and extraction in the anonymous session, and its merge wrote
\* the dev table.
C19_Witness ==
  /\ pc = "done" /\ is_dev /\ login_result = "False"
  /\ scanned # <<>> /\ discovered # <<>>
  /\ Len(queue) = DEV_LIMIT /\ qpos = Len(queue)
  /\ processed_batch # <<>>
  /\ files[DEV_CSV].exists
  /\ BatchIds \subseteq FileIds(files[DEV_CSV])

\* C20: a run ends in one of two ways: the abort of a non-dev run whose
\* login failed, with nothing written, or its completion after the merge
\* and the summary; no failure of a seed page, of an item, of the enrichment
\* or of the merge makes it end otherwise (an interruption from outside and
\* an empty URL list set aside).
C20_EndsAbortedOrDone ==
  pc \in (Ended \ {"interrupted", "crashed_partition"}) =>
    \/ pc = "done" /\ qpos = Len(queue)
    \/ /\ pc = "aborted" /\ ~is_dev /\ login_result = "False"
       /\ NothingWritten

\* The scenario of C21: a production run without force over the universe
\* [seedA, seedB] with current_index = 0, whose table holds one Record (item
\* 1, scraped the day before) and whose seed page links items 1 and 2.
C21_Scenario ==
  /\ ~is_dev /\ ~force
  /\ url_list = [exists |-> TRUE, n |-> 2]
  /\ cursor0 = JsonState(0)
  /\ Len(existing_df) = 1
  /\ existing_df[1].p4n_id[2] = 1
  /\ existing_df[1].last_scraped = Timestamp(now - 1)
  /\ Links(discovered) = {1, 2}

\* C21: in the scenario the queue is exactly [2]; once item 2 is extracted
\* the run completes, leaves current_index = 1, and the table file holds the
\* unchanged row of item 1 and a new row of item 2.
C21_EndToEnd ==
  (C21_Scenario /\ QueueBuilt) =>
    /\ queue = <<2>>
    /\ (MergeAttempted /\ BatchIds = {2}) =>
         /\ pc # "crashed_merge"
         /\ FileIds(CsvFile) = {1, 2}
         /\ \A i \in FileRows(CsvFile, 1) :
              CsvFile.rows[i].last_scraped = Text(now - 1)
         /\ \A i \in FileRows(CsvFile, 2) :
              CsvFile.rows[i].last_scraped = Text(now)
         /\ pc = "done" => state_file = JsonState(1)

\* C22: when a new row and an existing row of the same item_id carry equal
\* last_scraped values, the merge keeps one row of the item and it is the
\* new row.
C22_TieKeepsNew ==
  MergeAttempted =>
    \A v \in ItemIds : \A e \in ExistingRows(v) : \A b \in BatchRows(v) :
       (/\ ~isna(existing_df[e].last_scraped)
        /\ existing_df[e].last_scraped[2] = processed_batch[b].last_scraped[2])
       => /\ pc # "crashed_merge"
          /\ Cardinality(FileRows(CsvFile, v)) = 1
          /\ \A i \in FileRows(CsvFile, v) :
               CsvFile.rows[i] = to_csv(<<processed_batch[b]>>).rows[1]

\* The discovered links that pass the freshness/force filter, in the order
\* the Queue Builder iterates them.
Passing == SelectSeq(discovered, LAMBDA l : force \/ ~Fresh(l))
\* The first n entries of s (all of s when it is shorter).
Prefix(s, n) == SubSeq(s, 1, IF Len(s) < n THEN Len(s) ELSE n)

\* C23: in a dev run the queue holds at most DEV_LIMIT entries, and they are
\* the first DEV_LIMIT discovered items, in iteration order, that pass the
\* freshness/force filter; in a non-dev run the queue is every discovered
\* item that passes the filter, whatever their number.
C23_DevLimit ==
  QueueBuilt =>
    /\ is_dev => /\ Len(queue) <= DEV_LIMIT
                 /\ queue = Prefix(Passing, DEV_LIMIT)
    /\ ~is_dev => queue = Passing

\* C23 witness: a dev run passed over a fresh first item and queued the
\* second one.
C23_Witness ==
  /\ QueueBuilt /\ is_dev /\ ~force
  /\ Len(discovered) = 2
  /\ Fresh(discovered[1])
  /\ Len(queue) = DEV_LIMIT
  /\ queue = <<discovered[2]>>

\* C30: the seed a completed production run scanned and the cursor it
\* leaves agree for every persisted cursor, also one at or beyond N: after
\* scanning seed i the persisted current_index is (i+1) mod N.
C30_ScanAndAdvanceAgree ==
  (pc = "done" /\ ~is_dev /\ scanned # <<>>) =>
    state_file = JsonState((scanned[1] + 1) % url_list.n)

\* Pages whose extraction reaches the row: the AI step fails, answers null
\* for the numeric fields, or answers 0.
RowPages ==
  [fault : {"none"}, count : {MIN_REVIEWS_THRESHOLD},
   answers : {<<"error">>, <<"null">>, <<"zero">>}, place_id : {EmptyId}]

\* The row appended by the extraction of page holds 0 in the AI-normalized
\* numeric field when the AI answered 0, and null otherwise.
NullKept(page) ==
  /\ Len(processed_batch') = Len(processed_batch) + 1
  /\ processed_batch'[Len(processed_batch')].num_places =
       IF page.answers[1] = "zero" THEN PyInt(0) ELSE None

\* Every row of the batch a completed merge has written is in the table
\* file with an empty cell where the row holds null and 0 where it holds 0.
NullsWritten ==
  (pc \in {"increment", "done"} /\ processed_batch # <<>>) =>
    \A b \in 1..Len(processed_batch) :
      \E i \in FileRows(CsvFile, processed_batch[b].p4n_id[2]) :
         /\ CsvFile.rows[i].last_scraped = Text(processed_batch[b].last_scraped[2])
         /\ CsvFile.rows[i].num_places =
              IF processed_batch[b].num_places = None THEN Blank ELSE Text(0)

\* C29: when the AI step fails or returns no value for an AI-normalized
\* numeric field, the row stores null and never 0, and the table file keeps
\* the null apart from 0: a stored 0 comes from an AI result of 0.
C29_NullsPreserved ==
  /\ []NullsWritten
  /\ [][qpos' # qpos =>
          \A page \in RowPages : ExtractAtomic(page) => NullKept(page)]_vars

\* C29 witness: a run whose AI step failed for one item and answered 0 for
\* another has written an empty cell for the first and 0 for the second.
C29_Witness ==
  /\ pc = "increment"
  /\ \E a, b \in 1..Len(processed_batch) :
       /\ processed_batch[a].num_places = None
       /\ processed_batch[b].num_places = PyInt(0)
       /\ \E i \in FileRows(CsvFile, processed_batch[a].p4n_id[2]) :
            /\ CsvFile.rows[i].last_scraped = Text(now)
            /\ CsvFile.rows[i].num_places = Blank
       /\ \E j \in FileRows(CsvFile, processed_batch[b].p4n_id[2]) :
            /\ CsvFile.rows[j].last_scraped = Text(now)
            /\ CsvFile.rows[j].num_places = Text(0)

\* The state file the run started with is absent or corrupt: unreadable, or
\* not the expected {current_index: integer} content.
NoUsableState == cursor0.kind \in {"absent", "corrupt", "misshapen"}

\* C26: with the state file absent or corrupt the run does not raise in the
\* partition step, scans seed 0, and a completed production run leaves
\* current_index = 1 mod N.
C26_CorruptStateAsAbsent ==
  (NoUsableState /\ url_list.exists /\ url_list.n >= 1) =>
    /\ pc # "crashed_partition"
    /\ scanned # <<>> => scanned = <<0>>
    /\ (pc = "done" /\ ~is_dev) => state_file = JsonState(1 % url_list.n)

\* The table file cannot be used: it is missing or reading it raises.
NoUsableTable(f) == ~f.exists \/ LoadRaises(f)

\* A run that starts on a table file that cannot be used is constructed all
\* the same, with an empty existing table.
StartsEmpty ==
  (runs' # runs /\ NoUsableTable(files[CsvName(is_dev')])) =>
    /\ pc' = "login"
    /\ existing_df' = <<>>

\* Until it writes, such a run works on the empty table: nothing is left
\* out of the queue for freshness.
WorksOnEmpty ==
  (pc \in {"login", "partition", "discover", "extract"} /\ NoUsableTable(CsvFile)) =>
    /\ existing_df = <<>>
    /\ pc = "extract" =>
         /\ stats.discarded_fresh = 0
         /\ ~is_dev => queue = discovered

\* C27: when the table file is missing or cannot be parsed the run does not
\* abort and proceeds with an empty existing table.
C27_LoadTolerant == []WorksOnEmpty /\ [][StartsEmpty]_vars

\* C27 witness: a production run on a table file that cannot be parsed has
\* reached its extraction loop with both discovered items queued.
C27_Witness ==
  /\ pc = "extract" /\ ~is_dev
  /\ LoadRaises(CsvFile)
  /\ existing_df = <<>>
  /\ Len(queue) = 2

\* Positions of the requests among the events at the AI client.
Requests == {i \in 1..Len(ai_events) : ai_events[i][1] = "request"}

\* C24: every request to the AI capability comes right after a sleep of at
\* least AI_DELAY made by the same analyze_with_ai invocation (one request
\* per invocation), so two consecutive requests are at least the delay apart.
C24_DelayBeforeRequest ==
  /\ Cardinality(Requests) = stats.gemini_calls
  /\ \A i \in Requests :
       /\ i > 1
       /\ ai_events[i - 1][1] = "sleep"
       /\ ai_events[i - 1][2] >= AI_DELAY

\* C24 witness: a run has made two AI requests, a sleep of AI_DELAY between
\* the first and the second.
C24_Witness ==
  /\ stats.gemini_calls = 2
  /\ Len(ai_events) = 4
  /\ ai_events[2][1] = "request"
  /\ ai_events[3] = <<"sleep", AI_DELAY>>
  /\ ai_events[4][1] = "request"

\* C25: the queue entries are processed one at a time on the single page:
\* at most one extract_atomic call is in progress, it is the call of the
\* entry after the last finished one, and no call is in progress outside the
\* extraction loop (discovery is over, the merge has not begun).
C25_Sequential ==
  /\ Cardinality(in_flight) <= 1
  /\ in_flight \subseteq {qpos + 1}
  /\ in_flight # {} => pc = "extract" /\ qpos < Len(queue)

\* C25 witness: the call for the second entry is in progress, the call for
\* the first has returned with its row.
C25_Witness ==
  /\ pc = "extract"
  /\ qpos = 1
  /\ in_flight = {2}
  /\ Len(processed_batch) = 1

\* C28: every row of the processed batch, and every row written to a table
\* file, has a non-empty p4n_id, for every link that can be enqueued.
C28_ItemIdNonEmpty ==
  /\ \A b \in 1..Len(processed_batch) : processed_batch[b].p4n_id[2] # EmptyId
  /\ \A f \in CsvNames : EmptyId \notin FileIds(files[f])

\* A step that writes the state file over a list of N >= 1 seeds writes a
\* current_index within 0..N-1.
WritesInRange ==
  (state_file' # state_file /\ url_list.exists /\ url_list.n >= 1) =>
    /\ state_file'.kind = "json"
    /\ 0 <= state_file'.current_index
    /\ state_file'.current_index < url_list.n

\* C31: whenever the URL list holds N >= 1 seeds, every value increment_state
\* writes to the state file satisfies 0 <= current_index < N, whatever the
\* state file held before (absent, unreadable, at or beyond N, negative).
C31_CursorRange == [][WritesInRange]_vars

\* C31 witness: a completed production run over two seeds found a stored
\* index beyond the list and left one inside it.
C31_Witness ==
  /\ pc = "done" /\ ~is_dev
  /\ url_list.exists /\ url_list.n = 2
  /\ cursor0 = JsonState(3)
  /\ state_file = JsonState(0)

\* The row a step appends is stored under the id the Queue Builder derived
\* from the link of the entry being extracted.
StoredUnderLinkId ==
  Len(processed_batch') > Len(processed_batch) =>
    processed_batch'[Len(processed_batch')].p4n_id[2] = LinkId(queue[qpos + 1])

\* C32: the item_id under which a Record is stored is the id the Queue
\* Builder derives from the item's URL for its freshness lookup (so that a
\* later run within the staleness threshold finds the Record and leaves the
\* item out).
C32_StoredIdIsLookupId == [][StoredUnderLinkId]_vars

\* The last_scraped values table file f holds for item v.
Held(f, v) ==
  {f.rows[i].last_scraped[2] : i \in {k \in FileRows(f, v) :
                                        f.rows[k].last_scraped[1] = "text"}}

\* No step lowers a last_scraped held by a table file: after the step the
\* file holds, for the same item, a value at least as great.
NeverLowered ==
  \A f \in CsvNames : \A v \in ItemIds :
     \A x \in Held(files[f], v) : \E y \in Held(files'[f], v) : y >= x

\* C33: for every item_id the last_scraped held in the persisted table never
\* decreases over any sequence of runs, even when a later extraction carries
\* an older timestamp than the stored Record.
C33_LastScrapedMonotone == [][NeverLowered]_vars

\* C33 witness: a run re-extracted an item with a timestamp older than the
\* one its table file holds, its merge has been attempted, and the file
\* still holds the greater value.
C33_Witness ==
  /\ MergeAttempted
  /\ \E v \in ItemIds : \E b \in BatchRows(v) : \E x \in Held(CsvFile, v) :
       processed_batch[b].last_scraped[2] < x

\* A step of a dev run leaves the production table file and the state file
\* as they are.
DevLeavesProduction ==
  (is_dev /\ pc \in Running) =>
    /\ files'[PROD_CSV] = files[PROD_CSV]
    /\ state_file' = state_file

\* A dev run that starts loads the dev table file.
DevLoadsDevTable ==
  (runs' # runs /\ is_dev') => existing_df' = _load_existing(files[DEV_CSV])

\* C34: a dev run reads and writes only the dev table file; it never
\* modifies the production table file or the partition state file, whether
\* it completes or not.
C34_DevIsolation ==
  /\ [][DevLeavesProduction /\ DevLoadsDevTable]_vars
  /\ []((is_dev /\ pc \in Ended) => state_file = cursor0)

\* C34 witness: a dev run has completed and written its item to the dev
\* table file; the production table file does not hold the item, and the
\* cursor, which a production run would have moved, is where it was.
C34_Witness ==
  /\ pc = "done" /\ is_dev
  /\ processed_batch # <<>>
  /\ BatchIds \subseteq FileIds(files[DEV_CSV])
  /\ files[PROD_CSV].exists
  /\ BatchIds \cap FileIds(files[PROD_CSV]) = {}
  /\ state_file = cursor0
  /\ increment_state(url_list, state_file) # state_file

\* The table write of the run has completed: _upsert_and_save returned
\* without error, having written the merged table, or having had no row to
\* write.
WriteCompleted ==
  \/ processed_batch = <<>>
  \/ /\ ~SortRaises(concat(processed_batch, existing_df))
     /\ CsvFile = to_csv(Merged(processed_batch, existing_df))

\* A step that changes the state file is taken after the table write of the
\* run has completed.
CursorAfterWrite ==
  state_file' # state_file => (pc = "increment" /\ WriteCompleted)

\* C35: the partition cursor is advanced only after the table merge/write of
\* the same run has returned without error or was skipped for an empty
\* batch: no state has the cursor advanced for a run whose table write has
\* not completed.
C35_CursorAfterTableWrite ==
  /\ [][CursorAfterWrite]_vars
  /\ [](state_file # cursor0 => (pc = "done" /\ WriteCompleted))

\* C35 witness: a production run has written its merged table and then
\* advanced the cursor.
C35_Witness ==
  /\ pc = "done" /\ ~is_dev
  /\ processed_batch # <<>>
  /\ CsvFile = to_csv(Merged(processed_batch, existing_df))
  /\ state_file # cursor0

\* A production run has fetched its seed and found no item link on it.
ZeroLinks ==
  /\ ~is_dev
  /\ scanned # <<>>
  /\ discovered = <<>>
  /\ pc \in {"extract", "increment", "done", "crashed_extract", "crashed_merge"}

\* Such a run has an empty queue, extracts nothing, calls the AI capability
\* for nothing, has not failed, and once completed has advanced the cursor
\* by one.
ZeroLinksHarmless ==
  ZeroLinks =>
    /\ pc \in {"extract", "increment", "done"}
    /\ queue = <<>>
    /\ processed_batch = <<>>
    /\ stats.read = 0 /\ stats.gemini_calls = 0
    /\ ai_events = <<>>
    /\ pc # "done" => state_file = cursor0
    /\ pc = "done" =>
         state_file = JsonState((LoadedIndex(cursor0) + 1) % url_list.n)

\* Its steps write no table file and lead to the end of the run (or to its
\* interruption).
ZeroLinksCompletes ==
  ZeroLinks =>
    /\ files' = files
    /\ pc = "extract" => pc' \in {"extract", "increment", "interrupted"}
    /\ pc = "increment" => pc' \in {"increment", "done", "interrupted"}

\* C36: a production run whose seed yields no item link is not an error:
\* the queue is empty, no extraction and no AI call happen, the table file
\* is left as it is, the run completes and the cursor is advanced by one.
C36_ZeroLinksNotAnError == []ZeroLinksHarmless /\ [][ZeroLinksCompletes]_vars

\* C36 witness: a production run over an existing table found no link,
\* completed, and moved the cursor.
C36_Witness ==
  /\ ZeroLinks /\ pc = "done"
  /\ CsvFile.exists /\ CsvFile.rows # <<>>
  /\ _load_existing(CsvFile) = existing_df
  /\ state_file # cursor0

====
